---- MODULE Spec2Model ----
(***************************************************************************)
(* Model of class BotCommander (src/server.js, second program of the file, *)
(* lines 984-1366) and of the HTTP routes that create agents and update    *)
(* the server config (lines 2491-2541).                                    *)
(*                                                                         *)
(* An "object" o in 1..MaxObj is what one call of createBot allocates: the *)
(* record stored in botData and, when mineflayer.createBot did not throw,  *)
(* the session (the mineflayer bot) whose handlers close over that record  *)
(* and over the id (setupBotEvents takes `data` once, line 1104).  bots    *)
(* and botData map an id to the object registered under it, 0 for none.    *)
(* Every state of the model is a point between two handlers of the single  *)
(* event loop.                                                              *)
(***************************************************************************)
EXTENDS Integers, Sequences, FiniteSets, TLC

\* ---------------------------------------------------------------- bounds
\* Each specification explores every behaviour of at most lim.steps requests and
\* session events and at most lim.objs createBot calls.
MaxSteps == 7        \* Spec
MaxObj == 3
MaxStepsCfg == 6     \* SpecCfg
MaxObjCfg == 3
MaxStepsCmd == 6     \* SpecCmd
MaxObjCmd == 2
MaxStepsRace == 6    \* SpecRace
MaxObjRace == 2
MaxStepsDsp == 4     \* SpecDsp
MaxObjDsp == 1
MaxStepsLook == 4    \* SpecLook
MaxObjLook == 1
MaxStepsFleet == 5   \* SpecFleet
MaxObjFleet == 2
MaxStepsHttp == 4    \* SpecHttp
MaxObjHttp == 2
MaxStepsTick == 4    \* SpecTick
MaxObjTick == 2
MaxStepsChat == 4    \* SpecChat
MaxObjChat == 1
MaxReplies == 1      \* mention replies pending on one session
MaxStepsSimple == 4  \* SpecSimple
MaxObjSimple == 2
MaxInserts == 52     \* addToHistory calls explored by SpecHist
MaxClock == 1        \* clock ticks explored by SpecHist
MaxBotsCfg == 2      \* serverConfig.maxBots of the explored deployment

\* ------------------------------------------------------ program constants
HistoryCap == 50

Max(a, b) == IF a >= b THEN a ELSE b
ObjCap ==
  Max(Max(Max(MaxObj, MaxObjLook), Max(MaxObjRace, MaxObjDsp)),
      Max(Max(MaxObjCfg, MaxObjFleet), Max(Max(MaxObjCmd, MaxObjChat), Max(MaxObjHttp, Max(MaxObjTick, MaxObjSimple)))))
Ids == 0..(ObjCap - 1)
Objs == 1..ObjCap
NaN == -1

VARIABLES
  bots,            \* this.bots: id -> object whose session is registered, 0 = no key
  botData,         \* this.botData: id -> object whose record is registered, 0 = no key
  serverConfig,    \* this.serverConfig
  stats,           \* this.stats
  commandHistory,  \* this.commandHistory, newest first
  obj,             \* the objects allocated so far (record fields and session state)
  nObj,            \* number of objects allocated
  timers,          \* pending setTimeout(createBot, 2000) callbacks, in firing order
  calls,           \* executeCommand('move') invocations, suspended or finished
  ret,             \* what the last handler did and returned
  now,             \* the clock read by addToHistory
  added,           \* every entry addToHistory was ever given, oldest first
  gone,            \* ids whose session 'end' was processed and that were not
                   \* registered again since
  steps,           \* requests and session events handled so far
  lim              \* the bounds of the specification being explored

vars == <<bots, botData, serverConfig, stats, commandHistory, obj, nObj, timers,
          calls, ret, now, added, gone, steps, lim>>

\* ------------------------------------------------------------- the config
DefaultBotPrefix == "CommanderBot"

loadServerConfig ==
  [host |-> "localhost", port |-> 25565, version |-> "1.20.1",
   maxBots |-> MaxBotsCfg, defaultBotPrefix |-> DefaultBotPrefix]

\* Versions for which mineflayer.createBot returns a bot; for any other it throws
\* synchronously and createBot takes its catch branch.
SupportedVersions == {"1.20.1", "1.19.4"}

DigitVal(c) ==
  CASE c = "0" -> 0 [] c = "1" -> 1 [] c = "2" -> 2 [] c = "3" -> 3 [] c = "4" -> 4
    [] c = "5" -> 5 [] c = "6" -> 6 [] c = "7" -> 7 [] c = "8" -> 8 [] c = "9" -> 9
    [] OTHER -> NaN

RECURSIVE ParseDigits(_, _)
ParseDigits(str, acc) ==
  IF str = << >> \/ DigitVal(Head(str)) = NaN THEN acc
  ELSE ParseDigits(Tail(str), acc * 10 + DigitVal(Head(str)))

\* parseInt on a string of characters: the leading digits, NaN when there are none.
ParseInt(str) ==
  IF str = << >> \/ DigitVal(Head(str)) = NaN THEN NaN ELSE ParseDigits(str, 0)

\* Request bodies of POST /api/server/config.
ConfigInputs ==
  { [host |-> "alpha", port |-> <<"7", "1">>, version |-> "1.19.4"],
    [host |-> "beta", port |-> <<"7", "2", "x">>, version |-> "9.9.9"],
    [host |-> "", port |-> <<"7", "3">>, version |-> "1.19.4"],
    [host |-> "gamma", port |-> << >>, version |-> "1.19.4"],
    [host |-> "gamma", port |-> <<"7", "3">>, version |-> ""] }

\* { ...this.serverConfig, ...config }
saveServerConfig(config) ==
  [serverConfig EXCEPT !.host = config.host, !.port = config.port,
                       !.version = config.version]

\* ------------------------------------------------------------ the objects
NoName == << >>
NameInputs == {NoName, <<"Steve">>}

NoOptions == [host |-> "", port |-> 0, version |-> ""]

NoObj ==
  [id |-> -1, name |-> NoName, status |-> "none", activity |-> "none",
   server |-> << >>, lastCommand |-> "null", options |-> NoOptions,
   live |-> "none", spawned |-> FALSE, kickedOnce |-> FALSE, quit |-> FALSE,
   via |-> "none", resets |-> {}, issued |-> {}, facing |-> <<0, 0>>,
   stoppedAt |-> 0, interval |-> FALSE, position |-> "initial", welcome |-> "none",
   replies |-> 0]

\* botName || `${defaultBotPrefix}${id}`
BotName(id, botName) ==
  IF botName = NoName THEN <<serverConfig.defaultBotPrefix, id>> ELSE botName

\* botOptions of createBot (host, port, version)
BotOptions ==
  [host |-> serverConfig.host, port |-> serverConfig.port,
   version |-> serverConfig.version]

\* `${host}:${port}`
ServerField == <<serverConfig.host, serverConfig.port>>

\* The record and session createBot builds when mineflayer.createBot returns.
NewObject(id, name, via) ==
  [id |-> id, name |-> name, status |-> "connecting", activity |-> "waiting",
   server |-> ServerField, lastCommand |-> "null", options |-> BotOptions,
   live |-> "alive", spawned |-> FALSE, kickedOnce |-> FALSE, quit |-> FALSE,
   via |-> via, resets |-> {}, issued |-> {}, facing |-> <<0, 0>>,
   stoppedAt |-> 0, interval |-> FALSE, position |-> "initial", welcome |-> "none",
   replies |-> 0]

\* The record of createBot's catch branch: no session, no server field.
FailedObject(id, name, via) ==
  [NoObj EXCEPT !.id = id, !.name = name, !.status = "error", !.activity = "failed",
                !.via = via]

Registered(m) == {id \in Ids : m[id] # 0}
Alive(o) == o \in Objs /\ obj[o].live = "alive"

\* ------------------------------------------------------------ the history
Entry(type, message) ==
  [timestamp |-> now, type |-> type, message |-> message,
   botCount |-> stats.activeBots]

\* Mutant of addToHistory: shift instead of pop once the cap is exceeded.
addToHistoryShift(hist, entry) ==
  LET h == <<entry>> \o hist
  IN IF Len(h) > HistoryCap THEN Tail(h) ELSE h

\* unshift, then pop once the length exceeds the cap
addToHistory(hist, entry) ==
  LET h == <<entry>> \o hist
  IN IF Len(h) > HistoryCap THEN SubSeq(h, 1, Len(h) - 1) ELSE h

Log(type, message) ==
  /\ commandHistory' = addToHistory(commandHistory, Entry(type, message))
  /\ added' = Append(added, Entry(type, message))

NoLog == UNCHANGED <<commandHistory, added>>

\* ------------------------------------------------------------ the replies
\* What a handler answered: the request (op, with the id or the call it names and
\* the command kind), its result and error text, for a re-creation timer the
\* config installed by the update that scheduled it, for a follow or an attack
\* whether the target it named was visible, and for a config update or a look the
\* parameters of the request.
NoParams == [none |-> TRUE]

Reply(op, id, command, result, error) ==
  [op |-> op, id |-> id, command |-> command, result |-> result, error |-> error,
   config |-> NoOptions, target |-> "none", params |-> NoParams]

\* ret after a handler that answers no request (a session event).
NoReply == Reply("event", -1, "", "none", "")

\* The handler of a session event returns nothing either; the event it handled and
\* the session that emitted it are kept for the properties.
Emitted(event, o) == [NoReply EXCEPT !.command = event, !.id = o]

Outcome(ok) == IF ok THEN "success" ELSE "failure"

\* ------------------------------------------------------------------ Init
InitWith(bounds) ==
  /\ bots = [id \in Ids |-> 0]
  /\ botData = [id \in Ids |-> 0]
  /\ serverConfig = loadServerConfig
  /\ stats = [totalBotsCreated |-> 0, activeBots |-> 0, messagesSent |-> 0,
              movements |-> 0, errors |-> 0, commandsExecuted |-> 0]
  /\ commandHistory = << >>
  /\ obj = [o \in Objs |-> NoObj]
  /\ nObj = 0
  /\ timers = << >>
  /\ calls = << >>
  /\ ret = NoReply
  /\ now = 0
  /\ added = << >>
  /\ gone = {}
  /\ steps = 0
  /\ lim = bounds

\* ------------------------------------------------------------ the budget
\* A request or a session event: one more step of the explored budget.
Step == steps < lim.steps /\ steps' = steps + 1 /\ lim' = lim

\* A timer callback: its createBot call was counted when it was scheduled.
Free == UNCHANGED <<steps, lim>>

\* The ids a request names: the ids used so far and one that never was.
ReqIds == {id \in Ids : id <= nObj}

\* ------------------------------------------------------------- createBot
\* createBot(id, botName): the variables it writes are bots, botData, obj, nObj, stats.
\* via tells who called it: the create route or a re-creation timer.
createBot(id, botName, via) ==
  LET o == nObj + 1
      name == BotName(id, botName)
  IN /\ nObj' = o
     /\ IF serverConfig.version \in SupportedVersions
        THEN /\ bots' = [bots EXCEPT ![id] = o]
             /\ botData' = [botData EXCEPT ![id] = o]
             /\ obj' = [obj EXCEPT ![o] = NewObject(id, name, via)]
             /\ stats' = [stats EXCEPT !.totalBotsCreated = @ + 1]
             /\ gone' = gone \ {id}
        ELSE /\ bots' = bots
             /\ botData' = [botData EXCEPT ![id] = o]
             /\ obj' = [obj EXCEPT ![o] = FailedObject(id, name, via)]
             /\ stats' = stats
             /\ gone' = gone

\* Whether the createBot call of this step returned a bot.
Created == bots'[obj'[nObj'].id] = nObj'

\* POST /api/bots/create: id = commander.bots.size
PostBotsCreate(botName) ==
  LET id == Cardinality(Registered(bots))
  IN /\ Step
     /\ nObj + Len(timers) < lim.objs
     /\ createBot(id, botName, "route")
     /\ ret' = Reply("create", id, "", Outcome(Created),
                     IF Created THEN "" ELSE "Erreur creation bot")
     /\ UNCHANGED <<serverConfig, commandHistory, timers, calls, now, added>>

\* A setTimeout(() => this.createBot(id, data.name), 2000) callback fires.
TimerFire ==
  /\ Free
  /\ timers # << >>
  /\ createBot(Head(timers).id, Head(timers).name, "timer")
  /\ timers' = Tail(timers)
  /\ ret' = [Reply("timer", Head(timers).id, "", Outcome(Created), "")
               EXCEPT !.config = Head(timers).config]
  /\ UNCHANGED <<serverConfig, commandHistory, calls, now, added>>


\* ------------------------------------------------- session event handlers
\* The session library delivers 'spawn' at most once, 'kicked' at most once and
\* 'end' last; 'error' can arrive at any time before 'end', 'death' once spawned.
\* bot.once('spawn')
OnSpawn(o) ==
  /\ Step
  /\ Alive(o) /\ ~obj[o].spawned
  /\ obj' = [obj EXCEPT ![o].status = "connected", ![o].spawned = TRUE,
                        ![o].welcome = "pending", ![o].interval = TRUE]
  /\ stats' = [stats EXCEPT !.activeBots = @ + 1]
  /\ ret' = Emitted("spawn", o)
  /\ UNCHANGED <<bots, botData, serverConfig, commandHistory, nObj, timers, calls,
                 now, added, gone>>

\* The setInterval callback of the spawn handler, every second: the snapshot is
\* copied into the record the handler closed over, then the interval is cleared
\* if (!this.bots.has(id)).
IntervalTick(o) ==
  /\ Free
  /\ o \in Objs /\ obj[o].interval
  /\ obj' = [obj EXCEPT ![o].position = "live",
                        ![o].interval = (bots[obj[o].id] # 0)]
  /\ ret' = Emitted("tick", o)
  /\ UNCHANGED <<bots, botData, serverConfig, stats, commandHistory, nObj, timers,
                 calls, now, added, gone>>

\* The welcome message the spawn handler scheduled, 3 s later.
WelcomeFire(o) ==
  /\ Free
  /\ o \in Objs /\ obj[o].welcome = "pending"
  /\ obj' = [obj EXCEPT ![o].welcome = "sent"]
  /\ stats' = [stats EXCEPT !.messagesSent = @ + 1]
  /\ ret' = Emitted("welcome", o)
  /\ UNCHANGED <<bots, botData, serverConfig, commandHistory, nObj, timers, calls,
                 now, added, gone>>

\* bot.on('chat', (username, message)): own tells whether username is the
\* session's own, mentions whether the message contains the session's username.
OnChat(o, own, mentions) ==
  /\ Step
  /\ Alive(o) /\ obj[o].spawned
  /\ (~own /\ mentions) => obj[o].replies < MaxReplies
  /\ IF own
     THEN UNCHANGED <<obj, stats, commandHistory, added>>
     ELSE /\ stats' = [stats EXCEPT !.messagesSent = @ + 1]
          /\ Log("chat", <<"player", "message">>)
          /\ obj' = [obj EXCEPT ![o].replies = IF mentions THEN @ + 1 ELSE @]
  /\ ret' = [Emitted("chat", o) EXCEPT !.target = IF own THEN "own" ELSE "player"]
  /\ UNCHANGED <<bots, botData, serverConfig, nObj, timers, calls, now, gone>>

\* The reply to a mention, 1 s after the chat event.
ReplyFire(o) ==
  /\ Free
  /\ o \in Objs /\ obj[o].replies > 0
  /\ obj' = [obj EXCEPT ![o].replies = @ - 1]
  /\ stats' = [stats EXCEPT !.messagesSent = @ + 1]
  /\ ret' = Emitted("reply", o)
  /\ UNCHANGED <<bots, botData, serverConfig, commandHistory, nObj, timers, calls,
                 now, added, gone>>

\* bot.on('kicked')
OnKicked(o) ==
  /\ Step
  /\ Alive(o) /\ ~obj[o].kickedOnce
  /\ obj' = [obj EXCEPT ![o].status = "kicked", ![o].activity = "kicked",
                        ![o].kickedOnce = TRUE]
  /\ stats' = [stats EXCEPT !.activeBots = @ - 1]
  /\ commandHistory' =
       addToHistory(commandHistory,
                    [Entry("system", <<obj[o].name, "kicked">>)
                       EXCEPT !.botCount = stats.activeBots - 1])
  /\ added' = Append(added, [Entry("system", <<obj[o].name, "kicked">>)
                               EXCEPT !.botCount = stats.activeBots - 1])
  /\ ret' = Emitted("kicked", o)
  /\ UNCHANGED <<bots, botData, serverConfig, nObj, timers, calls, now, gone>>

\* Mutant of OnError: the error handled as the loss of the session.
OnErrorDrops(o) ==
  /\ Step
  /\ Alive(o)
  /\ obj' = [obj EXCEPT ![o].status = "error", ![o].activity = "error"]
  /\ stats' = [stats EXCEPT !.errors = @ + 1, !.activeBots = @ - 1]
  /\ ret' = Emitted("error", o)
  /\ UNCHANGED <<bots, botData, serverConfig, commandHistory, nObj, timers, calls,
                 now, added, gone>>

\* bot.on('error')
OnError(o) ==
  /\ Step
  /\ Alive(o)
  /\ obj' = [obj EXCEPT ![o].status = "error", ![o].activity = "error"]
  /\ stats' = [stats EXCEPT !.errors = @ + 1]
  /\ ret' = Emitted("error", o)
  /\ UNCHANGED <<bots, botData, serverConfig, commandHistory, nObj, timers, calls,
                 now, added, gone>>

\* Mutant of OnDeath: the dead agent's handle dropped from this.bots.
OnDeathDeregisters(o) ==
  /\ Step
  /\ Alive(o) /\ obj[o].spawned
  /\ obj' = [obj EXCEPT ![o].status = "dead", ![o].activity = "dead"]
  /\ Log("system", <<obj[o].name, "dead">>)
  /\ bots' = [bots EXCEPT ![obj[o].id] = 0]
  /\ ret' = Emitted("death", o)
  /\ UNCHANGED <<botData, serverConfig, stats, nObj, timers, calls, now, gone>>

\* bot.on('death')
OnDeath(o) ==
  /\ Step
  /\ Alive(o) /\ obj[o].spawned
  /\ obj' = [obj EXCEPT ![o].status = "dead", ![o].activity = "dead"]
  /\ Log("system", <<obj[o].name, "dead">>)
  /\ ret' = Emitted("death", o)
  /\ UNCHANGED <<bots, botData, serverConfig, stats, nObj, timers, calls, now, gone>>

\* Mutant of EndStatus: the test on 'kicked' left out.
EndStatusAlways(status) == "disconnected"

\* The status the 'end' handler leaves in the record.
EndStatus(status) == IF status # "kicked" THEN "disconnected" ELSE status

\* Whether the 'end' handler of object o deletes the key id from this.bots.
EndDeletes(o, id) == id = obj[o].id

\* bot.on('end')
OnEnd(o) ==
  /\ Step
  /\ Alive(o)
  /\ obj' = [obj EXCEPT ![o].status = EndStatus(@), ![o].live = "ended"]
  /\ stats' = [stats EXCEPT !.activeBots = @ - 1]
  /\ bots' = [id \in Ids |-> IF EndDeletes(o, id) THEN 0 ELSE bots[id]]
  /\ ret' = Emitted("end", o)
  /\ gone' = gone \cup {obj[o].id}
  /\ UNCHANGED <<botData, serverConfig, commandHistory, nObj, timers, calls, now,
                 added>>

\* ---------------------------------------------------------- executeCommand
Commands == {"chat", "move", "stop", "dance"}

\* Mutant of Unavailable: the lookup made in botData instead of bots.
UnavailableByRecord(botId) == botData[botId] = 0

\* !bot || bot.status === 'disconnected': the session object has no status
\* property, so the test is the registry lookup alone.
Unavailable(botId) == bots[botId] = 0

ExecUnavailable(botId, command) ==
  /\ Step
  /\ Unavailable(botId)
  /\ ret' = Reply("exec", botId, command, "failure", "Bot non disponible")
  /\ UNCHANGED <<bots, botData, serverConfig, stats, commandHistory, obj, nObj,
                 timers, calls, now, added, gone>>

\* The prologue of an available call: lastCommand and commandsExecuted.
Accepted(botId) == ~Unavailable(botId)

\* case 'chat'; bot.chat either returns or throws.
ExecChat(botId, throws) ==
  LET data == botData[botId]
  IN /\ Step
     /\ Accepted(botId)
     /\ obj' = [obj EXCEPT ![data].lastCommand = "chat"]
     /\ IF throws
        THEN /\ stats' = [stats EXCEPT !.commandsExecuted = @ + 1, !.errors = @ + 1]
             /\ NoLog
        ELSE /\ stats' = [stats EXCEPT !.commandsExecuted = @ + 1,
                                       !.messagesSent = @ + 1]
             /\ Log("command", <<obj[data].name, "chat">>)
     /\ ret' = Reply("exec", botId, "chat", Outcome(~throws),
                     IF throws THEN "SessionError" ELSE "")
     /\ UNCHANGED <<bots, botData, serverConfig, nObj, timers, calls, now, gone>>

\* pathfinder.setGoal / stop on session o: every goto still waiting on o will reject.
CancelGoals(o, byNewGoal) ==
  [c \in DOMAIN calls |->
     IF calls[c].o = o /\ calls[c].st \in {"pending", "cancelled"}
     THEN [calls[c] EXCEPT !.st = "cancelled", !.superseded = @ \/ byNewGoal]
     ELSE calls[c]]

\* case 'move', up to the await: the caller is suspended in goto.
ExecMove(botId) ==
  LET data == botData[botId]
      bot == bots[botId]
  IN /\ Step
     /\ Accepted(botId)
     /\ obj' = [obj EXCEPT ![data].lastCommand = "move", ![data].activity = "moving"]
     /\ stats' = [stats EXCEPT !.commandsExecuted = @ + 1]
     /\ calls' = Append(CancelGoals(bot, TRUE),
                        [o |-> bot, data |-> data, st |-> "pending",
                         superseded |-> FALSE, counted |-> FALSE])
     /\ ret' = Reply("exec", botId, "move", "suspended", "")
     /\ UNCHANGED <<bots, botData, serverConfig, commandHistory, nObj, timers, now,
                    added, gone>>

\* What a move whose goto resolved does and returns (lines 1235-1239).
MoveResolved(c) ==
  /\ stats' = [stats EXCEPT !.movements = @ + 1]
  /\ obj' = [obj EXCEPT ![calls[c].data].activity = "idle"]
  /\ Log("command", <<obj[calls[c].data].name, "moved">>)
  /\ calls' = [calls EXCEPT ![c].st = "ok", ![c].counted = TRUE]
  /\ ret' = Reply("moveDone", c, "move", "success", "")

\* Mutant of MoveRejected: the rejection swallowed, the move carried on as reached.
MoveRejectedSwallowed(c) ==
  /\ stats' = [stats EXCEPT !.movements = @ + 1]
  /\ obj' = [obj EXCEPT ![calls[c].data].activity = "idle"]
  /\ Log("command", <<obj[calls[c].data].name, "moved">>)
  /\ calls' = [calls EXCEPT ![c].st = "ok", ![c].counted = TRUE]
  /\ ret' = Reply("moveDone", c, "move", "success", "")

\* Mutant of MoveRejected: the attempt counted as a movement although it failed.
MoveRejectedCounted(c) ==
  /\ stats' = [stats EXCEPT !.errors = @ + 1, !.movements = @ + 1]
  /\ obj' = obj
  /\ NoLog
  /\ calls' = [calls EXCEPT ![c].st = "fail"]
  /\ ret' = Reply("moveDone", c, "move", "failure", "SessionError")

\* What a move whose goto rejected does and returns (the catch, lines 1319-1323).
MoveRejected(c) ==
  /\ stats' = [stats EXCEPT !.errors = @ + 1]
  /\ obj' = obj
  /\ NoLog
  /\ calls' = [calls EXCEPT ![c].st = "fail"]
  /\ ret' = Reply("moveDone", c, "move", "failure", "SessionError")

\* Mutant of MoveResolve: the resumed move stores its record again.
MoveResolveReinserts(c) ==
  /\ Step
  /\ c \in DOMAIN calls /\ calls[c].st = "pending"
  /\ Alive(calls[c].o) /\ obj[calls[c].o].spawned
  /\ MoveResolved(c)
  /\ botData' = [botData EXCEPT ![obj[calls[c].data].id] = calls[c].data]
  /\ UNCHANGED <<bots, serverConfig, nObj, timers, now, gone>>

\* The goal is reached: goto resolves.  Only a goal that is still the session's
\* current one can be reached, and only while the session lives in the world.
MoveResolve(c) ==
  /\ Step
  /\ c \in DOMAIN calls /\ calls[c].st = "pending"
  /\ Alive(calls[c].o) /\ obj[calls[c].o].spawned
  /\ MoveResolved(c)
  /\ UNCHANGED <<bots, botData, serverConfig, nObj, timers, now, gone>>

\* goto rejects: the goal was replaced or stopped, or no path, or the session failed.
MoveReject(c) ==
  /\ Step
  /\ c \in DOMAIN calls /\ calls[c].st \in {"pending", "cancelled"}
  /\ MoveRejected(c)
  /\ UNCHANGED <<bots, botData, serverConfig, nObj, timers, now, gone>>

\* case 'stop'
ExecStop(botId) ==
  LET data == botData[botId]
  IN /\ Step
     /\ Accepted(botId)
     /\ obj' = [obj EXCEPT ![data].lastCommand = "stop", ![data].activity = "idle"]
     /\ stats' = [stats EXCEPT !.commandsExecuted = @ + 1]
     /\ calls' = CancelGoals(bots[botId], FALSE)
     /\ Log("command", <<obj[data].name, "stopped">>)
     /\ ret' = Reply("exec", botId, "stop", "success", "")
     /\ UNCHANGED <<bots, botData, serverConfig, nObj, timers, now, gone>>

\* default: of the switch
ExecUnknown(botId) ==
  LET data == botData[botId]
  IN /\ Step
     /\ Accepted(botId)
     /\ obj' = [obj EXCEPT ![data].lastCommand = "dance"]
     /\ stats' = [stats EXCEPT !.commandsExecuted = @ + 1]
     /\ ret' = Reply("exec", botId, "dance", "failure", "Commande inconnue")
     /\ UNCHANGED <<bots, botData, serverConfig, commandHistory, nObj, timers, calls,
                    now, added, gone>>

\* Mutant of CatchStats: the catch returns the failure without counting it.
CatchStatsSilent(s) == s

\* this.stats.errors++ of the catch
CatchStats(s) == [s EXCEPT !.errors = @ + 1]

\* const data = this.botData.get(botId) found no record: data.lastCommand = ...
\* throws before the try, and the call raises to its caller.
NoRecord(botId) == botData[botId] = 0

Raised(botId, command) ==
  /\ ret' = Reply("exec", botId, command, "raised", "TypeError")
  /\ UNCHANGED <<obj, stats, commandHistory, added, calls>>

\* follow and attack reach their session call only with a visible target.
Seen(command) == IF command \in {"follow", "attack"} THEN "visible" ELSE "none"

\* A session call of the branch threw: the prologue, then the catch.
Threw(botId, command) ==
  /\ obj' = [obj EXCEPT ![botData[botId]].lastCommand = command]
  /\ stats' = CatchStats([stats EXCEPT !.commandsExecuted = @ + 1])
  /\ NoLog
  /\ calls' = calls
  /\ ret' = [Reply("exec", botId, command, "failure", "SessionError")
               EXCEPT !.target = Seen(command)]

\* Mutant of NotFound: the failed attempt logged like a success.
NotFoundLogged(botId, command) ==
  /\ obj' = [obj EXCEPT ![botData[botId]].lastCommand = command]
  /\ stats' = [stats EXCEPT !.commandsExecuted = @ + 1]
  /\ Log("command", <<obj[botData[botId]].name, command>>)
  /\ calls' = calls
  /\ ret' = [Reply("exec", botId, command, "failure", "non trouve")
               EXCEPT !.target = "absent"]

\* A branch that found no target: the prologue and the failure result.
NotFound(botId, command) ==
  /\ obj' = [obj EXCEPT ![botData[botId]].lastCommand = command]
  /\ stats' = [stats EXCEPT !.commandsExecuted = @ + 1]
  /\ NoLog
  /\ calls' = calls
  /\ ret' = [Reply("exec", botId, command, "failure", "non trouve")
               EXCEPT !.target = "absent"]

\* A call made on the session object, with its arguments.
Call(fn, args) == [fn |-> fn, args |-> args]

\* The session after the calls: they are recorded, and bot.look(yaw, pitch) turns
\* the entity.
Called(session, call) ==
  [session EXCEPT !.issued = @ \cup {c.fn : c \in call},
                  !.facing = IF \E c \in call : c.fn = "look"
                             THEN (CHOOSE c \in call : c.fn = "look").args
                             ELSE @]

\* A branch that succeeded: the prologue, the new activity (the old one when the
\* branch sets none), the delayed reset it schedules on the record and the call it
\* issued to the session, if any, then the history entry when the branch logs.
Done(botId, command, params, activity, reset, call, logs) ==
  LET data == botData[botId]
      bot == bots[botId]
      rec == [obj[data] EXCEPT !.lastCommand = command,
                               !.activity = IF activity = "" THEN @ ELSE activity,
                               !.resets = @ \cup reset]
  IN /\ obj' = [o \in Objs |->
                  IF o = bot /\ o = data THEN Called(rec, call)
                  ELSE IF o = data THEN rec
                  ELSE IF o = bot THEN Called(obj[o], call)
                  ELSE obj[o]]
     /\ stats' = [stats EXCEPT !.commandsExecuted = @ + 1]
     /\ IF logs THEN Log("command", <<obj[data].name, command>>) ELSE NoLog
     /\ ret' = [Reply("exec", botId, command, "success", "")
                  EXCEPT !.target = Seen(command), !.params = params]

\* params.player of a follow, params.target of an attack
PlayerInputs == {"Steve", "attacking"}
TargetInputs == {"zombie", "skeleton"}

\* String.prototype.includes
Includes(s, t) ==
  \E i \in 1..(Len(s) - Len(t) + 1) : SubSeq(s, i, i + Len(t) - 1) = t

\* A delayed reset: the command that scheduled it and the activity that command
\* wrote.
Reset(kind, wrote) == [kind |-> kind, wrote |-> wrote]

\* case 'follow': bot.players[playerName] has an entity or not; setGoal replaces
\* the goal of the session.
ExecFollow(botId, playerName, found, throws) ==
  /\ Step
  /\ Accepted(botId)
  /\ throws => found
  /\ IF NoRecord(botId) THEN Raised(botId, "follow")
     ELSE IF ~found THEN NotFound(botId, "follow")
     ELSE IF throws THEN Threw(botId, "follow")
     ELSE /\ Done(botId, "follow", NoParams, "following " \o playerName, {},
                  {Call("setGoal", << >>)}, TRUE)
          /\ calls' = CancelGoals(bots[botId], TRUE)
  /\ UNCHANGED <<bots, botData, serverConfig, nObj, timers, now, gone>>

\* case 'stop' when bot.pathfinder.stop() throws.
ExecStopThrows(botId) ==
  /\ Step
  /\ Accepted(botId)
  /\ IF NoRecord(botId) THEN Raised(botId, "stop") ELSE Threw(botId, "stop")
  /\ UNCHANGED <<bots, botData, serverConfig, nObj, timers, now, gone>>

\* case 'jump'; the 300 ms timer only calls the session.
ExecJump(botId, throws) ==
  /\ Step
  /\ Accepted(botId)
  /\ IF NoRecord(botId) THEN Raised(botId, "jump")
     ELSE IF throws THEN Threw(botId, "jump")
     ELSE /\ Done(botId, "jump", NoParams, "jumping", {Reset("jump", "jumping")}, {}, TRUE)
          /\ calls' = calls
  /\ UNCHANGED <<bots, botData, serverConfig, nObj, timers, now, gone>>

\* params of a look: yaw and pitch, each given or omitted, in quarter turns (the
\* field of an omitted one is not read and written 0).
LookInputs ==
  {x \in [has : SUBSET {"yaw", "pitch"}, yaw : {0, 1}, pitch : {0, 1}] :
     /\ "yaw" \notin x.has => x.yaw = 0
     /\ "pitch" \notin x.has => x.pitch = 0}

\* params of a look without yaw and without pitch
NoAngles == {x \in LookInputs : x.has = {}}

\* Math.random() * Math.PI * 2 and Math.random() * Math.PI - Math.PI / 2
RandomInputs == {[yaw |-> 2, pitch |-> -1], [yaw |-> 3, pitch |-> -1]}

\* params.yaw || random, params.pitch || random: undefined and 0 are falsy.
OrRandom(params, key, random) ==
  IF key \in params.has /\ params[key] # 0 THEN params[key] ELSE random[key]

\* case 'look'
ExecLook(botId, params, random, throws) ==
  LET yaw == OrRandom(params, "yaw", random)
      pitch == OrRandom(params, "pitch", random)
  IN /\ Step
     /\ Accepted(botId)
     /\ IF NoRecord(botId) THEN Raised(botId, "look")
        ELSE IF throws THEN Threw(botId, "look")
        ELSE /\ Done(botId, "look", params, "looking", {Reset("look", "looking")},
                     {Call("look", <<yaw, pitch>>)}, TRUE)
             /\ calls' = calls
     /\ UNCHANGED <<bots, botData, serverConfig, nObj, timers, now, gone>>

\* case 'inventory': no activity, no history entry.
ExecInventory(botId, throws) ==
  /\ Step
  /\ Accepted(botId)
  /\ IF NoRecord(botId) THEN Raised(botId, "inventory")
     ELSE IF throws THEN Threw(botId, "inventory")
     ELSE /\ Done(botId, "inventory", NoParams, "", {}, {}, FALSE)
          /\ calls' = calls
  /\ UNCHANGED <<bots, botData, serverConfig, nObj, timers, now, gone>>

\* case 'attack': an entity of bot.entities has the name or not.
ExecAttack(botId, target, found, throws) ==
  /\ Step
  /\ Accepted(botId)
  /\ throws => found
  /\ IF NoRecord(botId) THEN Raised(botId, "attack")
     ELSE IF ~found THEN NotFound(botId, "attack")
     ELSE IF throws THEN Threw(botId, "attack")
     ELSE /\ Done(botId, "attack", NoParams, "attacking " \o target,
                  {Reset("attack", "attacking " \o target)},
                  {Call("attack", << >>)}, TRUE)
          /\ calls' = calls
  /\ UNCHANGED <<bots, botData, serverConfig, nObj, timers, now, gone>>

\* The test of a delayed reset: === 'jumping', === 'looking',
\* .includes('attacking').
ResetTest(kind, activity) ==
  IF kind = "attack" THEN Includes(activity, "attacking")
  ELSE IF kind = "jump" THEN activity = "jumping"
  ELSE activity = "looking"

\* A delayed reset of jump, look or attack fires on the record it closed over:
\* if (test of data.activity) data.activity = 'idle'.
ResetFire(o, r) ==
  /\ Free
  /\ o \in Objs /\ r \in obj[o].resets
  /\ obj' = [obj EXCEPT ![o].resets = @ \ {r},
                        ![o].activity = IF ResetTest(r.kind, @) THEN "idle" ELSE @]
  /\ ret' = NoReply
  /\ UNCHANGED <<bots, botData, serverConfig, stats, commandHistory, nObj, timers,
                 calls, now, added, gone>>

\* ------------------------------------------------- removeBot, stopAllBots
\* Mutant of removeBot: the record deleted, the handle left in this.bots.
removeBotRecordOnly(botId) ==
  /\ Step
  /\ IF bots[botId] # 0
     THEN /\ obj' = [obj EXCEPT ![bots[botId]].quit = TRUE]
          /\ bots' = bots
          /\ botData' = [botData EXCEPT ![botId] = 0]
     ELSE UNCHANGED <<obj, bots, botData>>
  /\ ret' = Reply("remove", botId, "", Outcome(bots[botId] # 0),
                  IF bots[botId] # 0 THEN "" ELSE "Bot non trouve")
  /\ UNCHANGED <<serverConfig, stats, commandHistory, nObj, timers, calls, now,
                 added, gone>>

removeBot(botId) ==
  /\ Step
  /\ IF bots[botId] # 0
     THEN /\ obj' = [obj EXCEPT ![bots[botId]].quit = TRUE]
          /\ bots' = [bots EXCEPT ![botId] = 0]
          /\ botData' = [botData EXCEPT ![botId] = 0]
     ELSE UNCHANGED <<obj, bots, botData>>
  /\ ret' = Reply("remove", botId, "", Outcome(bots[botId] # 0),
                  IF bots[botId] # 0 THEN "" ELSE "Bot non trouve")
  /\ UNCHANGED <<serverConfig, stats, commandHistory, nObj, timers, calls, now,
                 added, gone>>

stopAllBots ==
  /\ Step
  /\ obj' = [o \in Objs |->
               IF \E id \in Ids : bots[id] = o
               THEN [obj[o] EXCEPT !.quit = TRUE, !.stoppedAt = nObj]
               ELSE obj[o]]
  /\ bots' = [id \in Ids |-> 0]
  /\ botData' = [id \in Ids |-> 0]
  /\ stats' = [stats EXCEPT !.activeBots = 0]
  /\ ret' = Reply("stopAll", -1, "", "success", "")
  /\ UNCHANGED <<serverConfig, commandHistory, nObj, timers, calls, now, added, gone>>

\* ------------------------------------------------------ updateServerConfig
\* The ids of a set in increasing order.
RECURSIVE InOrder(_)
InOrder(S) ==
  IF S = {} THEN << >>
  ELSE LET m == CHOOSE x \in S : \A y \in S : x <= y
       IN <<m>> \o InOrder(S \ {m})

\* Mutant of Migrated: the status test left out.
MigratedAnyStatus == Registered(bots)

\* The agents updateServerConfig reconnects: data.status === 'connected', over the
\* keys of this.bots.
Migrated == {id \in Registered(bots) : obj[botData[id]].status = "connected"}

\* updateServerConfig(host, port, version)
updateServerConfig(host, port, version) ==
  LET newConfig == [host |-> host, port |-> ParseInt(port), version |-> version]
      order == InOrder(Migrated)
  IN /\ serverConfig' = saveServerConfig(newConfig)
     /\ obj' = [o \in Objs |->
                  IF \E id \in Migrated : bots[id] = o
                  THEN [obj[o] EXCEPT !.quit = TRUE] ELSE obj[o]]
     /\ timers' = timers \o
          [i \in 1..Len(order) |->
             [id |-> order[i], name |-> obj[botData[order[i]]].name,
              config |-> newConfig]]

\* Mutant of ConfigInvalid: the version not required.
ConfigInvalidNoVersion(body) == body.host = "" \/ body.port = << >>

\* !host || !port || !version
ConfigInvalid(body) == body.host = "" \/ body.port = << >> \/ body.version = ""

\* POST /api/server/config
PostServerConfig(body) ==
  /\ Step
  /\ IF ConfigInvalid(body)
     THEN /\ ret' = [Reply("config", -1, "", "failure", "Host, port et version requis")
                      EXCEPT !.params = body]
          /\ UNCHANGED <<bots, botData, serverConfig, stats, commandHistory, obj, nObj,
                         timers, calls, now, added, gone>>
     ELSE /\ nObj + Len(timers) + Cardinality(Migrated) <= lim.objs
          /\ updateServerConfig(body.host, body.port, body.version)
          /\ ret' = [Reply("config", -1, "", "success", "") EXCEPT !.params = body]
          /\ UNCHANGED <<bots, botData, stats, commandHistory, nObj, calls, now, added,
                         gone>>

\* --------------------------------------------------------- specifications
\* Spec: the lifecycle of the fleet (create, session events, remove, stop-all).
Init == InitWith([steps |-> MaxSteps, objs |-> MaxObj])

Next ==
  \/ PostBotsCreate(NoName)
  \/ \E o \in Objs : OnSpawn(o)
  \/ \E o \in Objs : OnKicked(o)
  \/ \E o \in Objs : OnError(o)
  \/ \E o \in Objs : OnDeath(o)
  \/ \E o \in Objs : OnEnd(o)
  \/ \E id \in ReqIds : removeBot(id)
  \/ stopAllBots

Spec == Init /\ [][Next]_vars

\* SpecCfg: config updates and the re-creations they schedule.
InitCfg == InitWith([steps |-> MaxStepsCfg, objs |-> MaxObjCfg])

NextCfg ==
  \/ \E n \in NameInputs : PostBotsCreate(n)
  \/ \E o \in Objs : OnSpawn(o)
  \/ \E o \in Objs : OnKicked(o)
  \/ \E o \in Objs : OnError(o)
  \/ \E o \in Objs : OnDeath(o)
  \/ \E o \in Objs : OnEnd(o)
  \/ \E b \in ConfigInputs : PostServerConfig(b)
  \/ TimerFire

SpecCfg == InitCfg /\ [][NextCfg]_vars

\* SpecCmd: the command dispatcher.
InitCmd == InitWith([steps |-> MaxStepsCmd, objs |-> MaxObjCmd])

NextCmd ==
  \/ PostBotsCreate(NoName)
  \/ \E o \in Objs : OnSpawn(o)
  \/ \E o \in Objs : OnEnd(o)
  \/ \E id \in ReqIds, c \in Commands : ExecUnavailable(id, c)
  \/ \E id \in ReqIds, t \in BOOLEAN : ExecChat(id, t)
  \/ \E id \in ReqIds : ExecMove(id)
  \/ \E c \in DOMAIN calls : MoveResolve(c)
  \/ \E c \in DOMAIN calls : MoveReject(c)
  \/ \E id \in ReqIds : ExecStop(id)
  \/ \E id \in ReqIds : ExecUnknown(id)
  \/ \E id \in ReqIds : removeBot(id)

SpecCmd == InitCmd /\ [][NextCmd]_vars

\* SpecHist: addToHistory called over and over while the clock advances.
InitHist == InitWith([steps |-> MaxInserts, objs |-> 0])

AddEntry(type) ==
  /\ Step
  /\ Log(type, <<"entry", Len(added) + 1>>)
  /\ ret' = NoReply
  /\ UNCHANGED <<bots, botData, serverConfig, stats, obj, nObj, timers, calls, now,
                 gone>>

\* Date advances between two handlers; it never runs backwards.
Tick ==
  /\ now < MaxClock
  /\ now' = now + 1
  /\ UNCHANGED <<bots, botData, serverConfig, stats, commandHistory, obj, nObj,
                 timers, calls, ret, added, gone, steps, lim>>

NextHist == AddEntry("system") \/ Tick

SpecHist == InitHist /\ [][NextHist]_vars

\* SpecRace: moves in flight while their agent is removed, stopped or ends.
InitRace == InitWith([steps |-> MaxStepsRace, objs |-> MaxObjRace])

NextRace ==
  \/ PostBotsCreate(NoName)
  \/ \E o \in Objs : OnSpawn(o)
  \/ \E o \in Objs : OnEnd(o)
  \/ \E id \in ReqIds : ExecMove(id)
  \/ \E c \in DOMAIN calls : MoveResolve(c)
  \/ \E c \in DOMAIN calls : MoveReject(c)
  \/ \E id \in ReqIds : removeBot(id)
  \/ stopAllBots

SpecRace == InitRace /\ [][NextRace]_vars

\* SpecDsp: every branch of the dispatcher on one agent.
InitDsp == InitWith([steps |-> MaxStepsDsp, objs |-> MaxObjDsp])

Resets ==
  {Reset("jump", "jumping"), Reset("look", "looking")}
    \cup {Reset("attack", "attacking " \o t) : t \in TargetInputs}

NextDsp ==
  \/ PostBotsCreate(NoName)
  \/ \E o \in Objs : OnSpawn(o)
  \/ \E o \in Objs : OnKicked(o)
  \/ \E o \in Objs : OnError(o)
  \/ \E o \in Objs : OnDeath(o)
  \/ \E o \in Objs : OnEnd(o)
  \/ \E id \in ReqIds, t \in BOOLEAN : ExecChat(id, t)
  \/ \E id \in ReqIds : ExecMove(id)
  \/ \E c \in DOMAIN calls : MoveResolve(c)
  \/ \E c \in DOMAIN calls : MoveReject(c)
  \/ \E id \in ReqIds, p \in PlayerInputs, f, t \in BOOLEAN : ExecFollow(id, p, f, t)
  \/ \E id \in ReqIds : ExecStop(id)
  \/ \E id \in ReqIds : ExecStopThrows(id)
  \/ \E id \in ReqIds, t \in BOOLEAN : ExecJump(id, t)
  \/ \E id \in ReqIds, p \in NoAngles, r \in RandomInputs, t \in BOOLEAN :
       ExecLook(id, p, r, t)
  \/ \E id \in ReqIds, t \in BOOLEAN : ExecInventory(id, t)
  \/ \E id \in ReqIds, e \in TargetInputs, f, t \in BOOLEAN : ExecAttack(id, e, f, t)
  \/ \E id \in ReqIds : ExecUnknown(id)
  \/ \E o \in Objs, r \in Resets : ResetFire(o, r)

SpecDsp == InitDsp /\ [][NextDsp]_vars

\* ------------------------------------------------- the routes with an :id
\* A JavaScript value used as a Map key: the number n, or the string that is the
\* decimal text of n.
Num(n) == [type |-> "number", val |-> n]
Str(n) == [type |-> "string", val |-> n]

\* Map keys are compared with SameValueZero: a string never equals a number.
SameValueZero(a, b) == a.type = b.type /\ a.val = b.val

\* map.get(key) on a registry whose keys are the numbers createBot was given;
\* 0 stands for undefined.
MapGet(map, key) ==
  LET hit == {id \in Ids : map[id] # 0 /\ SameValueZero(Num(id), key)}
  IN IF hit = {} THEN 0 ELSE map[CHOOSE id \in hit : TRUE]

\* req.params.id of a request made with an id the create route returned
UrlParams == {Str(id) : id \in ReqIds}

\* POST /api/bots/:id/command with command 'stop': executeCommand(req.params.id, ...)
PostBotsCommand(param) ==
  IF MapGet(bots, param) = 0
  THEN /\ Step
       /\ ret' = [Reply("exec", param.val, "stop", "failure", "Bot non disponible")
                    EXCEPT !.params = param]
       /\ UNCHANGED <<bots, botData, serverConfig, stats, commandHistory, obj, nObj,
                      timers, calls, now, added, gone>>
  ELSE ExecStop(param.val)

\* GET /api/bots/:id
GetBot(param) ==
  LET found == MapGet(bots, param) # 0 /\ MapGet(botData, param) # 0
  IN /\ Step
     /\ ret' = [Reply("lookup", param.val, "", Outcome(found),
                      IF found THEN "" ELSE "Bot non trouve")
                  EXCEPT !.params = param]
     /\ UNCHANGED <<bots, botData, serverConfig, stats, commandHistory, obj, nObj,
                    timers, calls, now, added, gone>>

\* DELETE /api/bots/:id: removeBot(req.params.id)
DeleteBot(param) ==
  IF MapGet(bots, param) = 0
  THEN /\ Step
       /\ ret' = [Reply("remove", param.val, "", "failure", "Bot non trouve")
                    EXCEPT !.params = param]
       /\ UNCHANGED <<bots, botData, serverConfig, stats, commandHistory, obj, nObj,
                      timers, calls, now, added, gone>>
  ELSE removeBot(param.val)

\* SpecHttp: the fleet driven through the HTTP entry points.
InitHttp == InitWith([steps |-> MaxStepsHttp, objs |-> MaxObjHttp])

NextHttp ==
  \/ PostBotsCreate(NoName)
  \/ \E o \in Objs : OnSpawn(o)
  \/ \E o \in Objs : OnEnd(o)
  \/ \E p \in UrlParams : PostBotsCommand(p)
  \/ \E p \in UrlParams : GetBot(p)
  \/ \E p \in UrlParams : DeleteBot(p)
  \/ stopAllBots

SpecHttp == InitHttp /\ [][NextHttp]_vars

\* SpecTick: the snapshot refresh of each spawned session against the operations
\* that register and unregister ids.
InitTick == InitWith([steps |-> MaxStepsTick, objs |-> MaxObjTick])

NextTick ==
  \/ PostBotsCreate(NoName)
  \/ \E o \in Objs : OnSpawn(o)
  \/ \E o \in Objs : OnEnd(o)
  \/ \E id \in ReqIds : removeBot(id)
  \/ stopAllBots
  \/ \E o \in Objs : IntervalTick(o)

SpecTick == InitTick /\ [][NextTick]_vars

\* SpecChat: the lines the agents send and the chat events they receive.
InitChat == InitWith([steps |-> MaxStepsChat, objs |-> MaxObjChat])

NextChat ==
  \/ PostBotsCreate(NoName)
  \/ \E o \in Objs : OnSpawn(o)
  \/ \E o \in Objs : OnEnd(o)
  \/ \E id \in ReqIds, t \in BOOLEAN : ExecChat(id, t)
  \/ \E o \in Objs, own, mentions \in BOOLEAN : OnChat(o, own, mentions)
  \/ \E o \in Objs : WelcomeFire(o)
  \/ \E o \in Objs : ReplyFire(o)

SpecChat == InitChat /\ [][NextChat]_vars

\* ------------------------------------------------------ SimpleBotManager
\* The class keeps one Map, this.bots, from botId = Date.now() to an entry
\* {id, name, bot, status}; it is modelled with bots, obj, nObj and the clock now.

\* A handler that read this.bots.get(botId).status on a missing entry.
SimpleThrew(event, o) ==
  [Emitted(event, o) EXCEPT !.result = "raised", !.error = "TypeError"]

\* SimpleBotManager.createBot(botName)
SimpleCreateBot ==
  LET o == nObj + 1
      botId == now
  IN /\ Step
     /\ nObj < lim.objs /\ botId \in Ids
     /\ nObj' = o
     /\ IF serverConfig.version \in SupportedVersions
        THEN /\ bots' = [bots EXCEPT ![botId] = o]
             /\ obj' = [obj EXCEPT ![o] =
                          [NoObj EXCEPT !.id = botId, !.name = <<"Bot", o>>,
                                        !.status = "connecting", !.live = "alive"]]
             /\ ret' = Reply("create", botId, "", "success", "")
        ELSE /\ UNCHANGED <<bots, obj>>
             /\ ret' = Reply("create", -1, "", "failure", "SessionError")
     /\ UNCHANGED <<botData, serverConfig, stats, commandHistory, timers, calls, now,
                    added, gone>>

\* bot.once('spawn'): this.bots.get(botId).status = 'connected'
SimpleOnSpawn(o) ==
  /\ Step
  /\ Alive(o) /\ ~obj[o].spawned
  /\ LET entry == bots[obj[o].id]
     IN IF entry = 0
        THEN /\ obj' = [obj EXCEPT ![o].spawned = TRUE]
             /\ ret' = SimpleThrew("spawn", o)
        ELSE /\ obj' = [obj EXCEPT ![o].spawned = TRUE, ![entry].status = "connected"]
             /\ ret' = Emitted("spawn", o)
  /\ UNCHANGED <<bots, botData, serverConfig, stats, commandHistory, nObj, timers,
                 calls, now, added, gone>>

\* bot.on('error'): this.bots.get(botId).status = 'error'
SimpleOnError(o) ==
  /\ Step
  /\ Alive(o)
  /\ LET entry == bots[obj[o].id]
     IN IF entry = 0
        THEN /\ obj' = obj
             /\ ret' = SimpleThrew("error", o)
        ELSE /\ obj' = [obj EXCEPT ![entry].status = "error"]
             /\ ret' = Emitted("error", o)
  /\ UNCHANGED <<bots, botData, serverConfig, stats, commandHistory, nObj, timers,
                 calls, now, added, gone>>

\* bot.on('end'): this.bots.delete(botId)
SimpleOnEnd(o) ==
  /\ Step
  /\ Alive(o)
  /\ obj' = [obj EXCEPT ![o].live = "ended"]
  /\ bots' = [bots EXCEPT ![obj[o].id] = 0]
  /\ ret' = Emitted("end", o)
  /\ UNCHANGED <<botData, serverConfig, stats, commandHistory, nObj, timers, calls,
                 now, added, gone>>

\* SimpleBotManager.removeBot(botId)
SimpleRemoveBot(botId) ==
  /\ Step
  /\ IF bots[botId] # 0
     THEN /\ obj' = [obj EXCEPT ![bots[botId]].quit = TRUE]
          /\ bots' = [bots EXCEPT ![botId] = 0]
     ELSE UNCHANGED <<obj, bots>>
  /\ ret' = Reply("remove", botId, "", Outcome(bots[botId] # 0), "")
  /\ UNCHANGED <<botData, serverConfig, stats, commandHistory, nObj, timers, calls,
                 now, added, gone>>

InitSimple == InitWith([steps |-> MaxStepsSimple, objs |-> MaxObjSimple])

NextSimple ==
  \/ SimpleCreateBot
  \/ Tick
  \/ \E o \in Objs : SimpleOnSpawn(o)
  \/ \E o \in Objs : SimpleOnError(o)
  \/ \E o \in Objs : SimpleOnEnd(o)
  \/ \E id \in Ids : SimpleRemoveBot(id)

SpecSimple == InitSimple /\ [][NextSimple]_vars

\* SpecFleet: every operation that writes a registry, and a command that reads both.
InitFleet == InitWith([steps |-> MaxStepsFleet, objs |-> MaxObjFleet])

NextFleet ==
  \/ PostBotsCreate(NoName)
  \/ \E o \in Objs : OnSpawn(o)
  \/ \E o \in Objs : OnEnd(o)
  \/ \E id \in ReqIds : removeBot(id)
  \/ stopAllBots
  \/ \E b \in ConfigInputs : PostServerConfig(b)
  \/ TimerFire
  \/ \E id \in ReqIds : ExecUnavailable(id, "inventory")
  \/ \E id \in ReqIds, t \in BOOLEAN : ExecInventory(id, t)

SpecFleet == InitFleet /\ [][NextFleet]_vars

\* SpecLook: the look command over every combination of given and omitted angles.
InitLook == InitWith([steps |-> MaxStepsLook, objs |-> MaxObjLook])

NextLook ==
  \/ PostBotsCreate(NoName)
  \/ \E o \in Objs : OnSpawn(o)
  \/ \E id \in ReqIds, p \in LookInputs, r \in RandomInputs, t \in BOOLEAN :
       ExecLook(id, p, r, t)
  \/ \E o \in Objs, r \in Resets : ResetFire(o, r)

SpecLook == InitLook /\ [][NextLook]_vars

\* ------------------------------------------------------------------ claims
ConnectedRecords ==
  {id \in Ids : botData[id] # 0 /\ obj[botData[id]].status = "connected"}

\* C1: between two handlers, stats.activeBots equals the number of agent records
\* whose status is 'connected'.
C1_ActiveEqualsConnected == stats.activeBots = Cardinality(ConnectedRecords)

\* The edges of the lifecycle graph of spec section 4.2.
LifecycleEdges ==
  {<<"connecting", "connected">>, <<"connected", "kicked">>, <<"connected", "dead">>}
  \cup {<<from, "error">> :
          from \in {"connecting", "connected", "kicked", "dead", "disconnected"}}
  \cup {<<from, "disconnected">> :
          from \in {"connecting", "connected", "kicked", "error", "dead"}}

\* C2: every change of the status of a record (one registration of an id) follows
\* an edge of the lifecycle graph; a kicked or death event never takes a record from
\* connecting to kicked or dead.
C2_LifecycleEdges ==
  [][\A o \in Objs :
       (obj[o].status # "none" /\ obj'[o].status # obj[o].status)
         => <<obj[o].status, obj'[o].status>> \in LifecycleEdges]_vars

Min(a, b) == IF a <= b THEN a ELSE b

\* C3: the history never holds more than 50 entries; after n calls of addToHistory
\* it is the min(n, 50) entries added last, newest first, with timestamps that do
\* not increase from head to tail.
C3_HistoryNewestFirst ==
  /\ Len(commandHistory) <= HistoryCap
  /\ Len(commandHistory) = Min(Len(added), HistoryCap)
  /\ \A i \in 1..Len(commandHistory) :
       commandHistory[i] = added[Len(added) - i + 1]
  /\ \A i \in 1..(Len(commandHistory) - 1) :
       commandHistory[i].timestamp >= commandHistory[i + 1].timestamp

\* After 51 inserts the first inserted entry is gone and the clock advanced meanwhile.
C3_Witness ==
  /\ Len(added) = HistoryCap + 1
  /\ Len(commandHistory) = HistoryCap
  /\ \A i \in 1..Len(commandHistory) : commandHistory[i] # added[1]
  /\ commandHistory[1].timestamp > commandHistory[HistoryCap].timestamp

NeverRegistered(id) == \A o \in Objs : obj[o].id # id

\* The step is an executeCommand call for id that returned at once.
ExecReplyFor(id) == steps' # steps /\ ret'.op = "exec" /\ ret'.id = id

\* C4: once the 'end' event of the session of an id has been processed and until the
\* id is registered again, or when the id never was registered, executeCommand for
\* it fails with 'Bot non disponible' and changes no counter, no record, no registry
\* and not the history.
C4_EndedAgentUnavailable ==
  [][\A id \in Ids :
       (ExecReplyFor(id) /\ (id \in gone \/ NeverRegistered(id)))
         => /\ ret'.result = "failure"
            /\ ret'.error = "Bot non disponible"
            /\ UNCHANGED <<stats, commandHistory, obj, bots, botData, calls>>]_vars

\* A move was refused for an id whose session ended after it had been registered.
C4_Witness ==
  /\ ret.op = "exec" /\ ret.command = "move"
  /\ ret.result = "failure" /\ ret.error = "Bot non disponible"
  /\ ret.id \in gone
  /\ botData[ret.id] # 0 /\ obj[botData[ret.id]].status = "disconnected"

\* C5: a create request made when the fleet already holds serverConfig.maxBots
\* agents is refused and leaves bots, botData and totalBotsCreated as they were.
C5_CapacityEnforced ==
  [][(steps' # steps /\ ret'.op = "create"
        /\ Cardinality(Registered(botData)) = serverConfig.maxBots)
       => /\ ret'.result = "failure"
          /\ UNCHANGED <<bots, botData>>
          /\ stats'.totalBotsCreated = stats.totalBotsCreated]_vars

\* The sessions of an id that are created, not ended and not asked to disconnect.
RunningSessions(id) ==
  {o \in Objs : obj[o].id = id /\ obj[o].live = "alive" /\ ~obj[o].quit}

\* C6: no id ever has two sessions running: a create for an id whose session lives
\* is refused or disconnects that session first.
C6_OneSessionPerId == \A id \in Ids : Cardinality(RunningSessions(id)) <= 1

\* The step is an accepted config update.
UpdateStep == steps' # steps /\ ret'.op = "config" /\ ret'.result = "success"

Names == NameInputs \cup {<<DefaultBotPrefix, id>> : id \in Ids}
Servers ==
  {<<loadServerConfig.host, loadServerConfig.port>>}
    \cup {<<b.host, ParseInt(b.port)>> : b \in ConfigInputs}

\* C7: a config update made while an agent is 'connected' asks that agent's session
\* to disconnect, and under fair timer firing a session is later registered under
\* the same id and name, in status 'connecting', its server field the new host:port.
C7_ConnectedAgentMigrates ==
  /\ [][UpdateStep =>
          \A id \in ConnectedRecords : obj'[botData[id]].quit]_vars
  /\ \A id \in Ids, n \in Names, h \in Servers :
       (/\ ret.op = "config" /\ ret.result = "success"
        /\ id \in ConnectedRecords
        /\ obj[botData[id]].name = n
        /\ ServerField = h)
         ~> (/\ bots[id] # 0
             /\ obj[bots[id]].name = n
             /\ obj[bots[id]].status = "connecting"
             /\ obj[bots[id]].server = h)

TimersFor(q, id) == Cardinality({i \in DOMAIN q : q[i].id = id})

\* C8: a config update leaves every agent whose status is not 'connected' as it
\* was: its registry entries and its record are unchanged, its session is not asked
\* to disconnect and no re-creation is scheduled for its id.
C8_UpdateSkipsOthers ==
  [][UpdateStep =>
       \A id \in Ids :
         (botData[id] # 0 /\ obj[botData[id]].status # "connected")
           => /\ bots'[id] = bots[id] /\ botData'[id] = botData[id]
              /\ obj'[botData[id]] = obj[botData[id]]
              /\ bots[id] # 0 => obj'[bots[id]].quit = obj[bots[id]].quit
              /\ TimersFor(timers', id) = TimersFor(timers, id)]_vars

\* An update migrated one agent and left another, registered and not connected,
\* with its running session and its old server field.
C8_Witness ==
  /\ ret.op = "config" /\ ret.result = "success"
  /\ \E id, other \in Ids :
       /\ bots[id] # 0 /\ bots[id] = botData[id]
       /\ obj[bots[id]].status \in {"connecting", "kicked", "error", "dead"}
       /\ ~obj[bots[id]].quit
       /\ obj[bots[id]].server # ServerField
       /\ TimersFor(timers, id) = 0
       /\ TimersFor(timers, other) = 1 /\ obj[bots[other]].quit

\* The step is a re-creation timer whose createBot call returned a bot.
TimerCreated == ret'.op = "timer" /\ ret'.result = "success" /\ nObj' = nObj + 1

\* C9: the session a migration timer creates connects to the host, port
\* and version installed by the update that scheduled the timer.
C9_UsesSchedulingConfig ==
  [][TimerCreated => obj'[nObj'].options = ret'.config]_vars

\* C10: a move superseded by a later move on the same session while it was still
\* suspended never returns success and never increments movements; movements counts
\* exactly the moves that returned success.
C10_SupersededMoveFails ==
  /\ \A c \in DOMAIN calls :
       calls[c].superseded => calls[c].st \in {"cancelled", "fail"} /\ ~calls[c].counted
  /\ \A c \in DOMAIN calls : calls[c].counted <=> calls[c].st = "ok"
  /\ stats.movements = Cardinality({c \in DOMAIN calls : calls[c].counted})

\* Two moves on one session, the second issued while the first was suspended: the
\* first failed, the second succeeded, movements is 1.
C10_Witness ==
  \E c1, c2 \in DOMAIN calls :
    /\ c1 < c2 /\ calls[c1].o = calls[c2].o
    /\ calls[c1].superseded /\ calls[c1].st = "fail"
    /\ calls[c2].st = "ok"
    /\ stats.movements = 1

\* SpecCfgFair: SpecCfg with every scheduled re-creation timer eventually firing.
SpecCfgFair == SpecCfg /\ WF_vars(TimerFire)

\* The step resumes the suspended move c (its goto resolved or rejected).
MoveDoneStep(c) == steps' # steps /\ ret'.op = "moveDone" /\ ret'.id = c

\* The agent of the suspended move c was removed, or its session ended, or the id
\* was given to another session meanwhile.
Detached(c) ==
  LET id == obj[calls[c].data].id
  IN bots[id] # calls[c].o \/ botData[id] # calls[c].data \/ ~Alive(calls[c].o)

\* C11: a move that resumes after its agent was removed (remove, stop-all) or its
\* session ended puts no session handle and no record back into the fleet and
\* leaves stats.activeBots as it was.
C11_ResumedMoveKeepsFleet ==
  [][\A c \in DOMAIN calls :
       (MoveDoneStep(c) /\ Detached(c))
         => /\ bots' = bots
            /\ botData' = botData
            /\ stats'.activeBots = stats.activeBots]_vars

\* A move resumed with its goal reached after removeBot or stopAllBots had deleted
\* its agent: the fleet still has neither handle nor record for the id.
C11_Witness ==
  /\ ret.op = "moveDone" /\ ret.result = "success"
  /\ ret.id \in DOMAIN calls
  /\ LET id == obj[calls[ret.id].data].id
     IN bots[id] = 0 /\ botData[id] = 0 /\ obj[calls[ret.id].o].quit

\* C12: a move whose agent was removed or whose session ended while it was
\* suspended completes with a failure, never with success, and neither increments
\* movements nor appends a history entry.
C12_DetachedMoveFails ==
  [][\A c \in DOMAIN calls :
       (MoveDoneStep(c) /\ Detached(c))
         => /\ ret'.result = "failure"
            /\ stats'.movements = stats.movements
            /\ commandHistory' = commandHistory]_vars

\* The step is a removeBot call for id.
RemoveStep(id) == steps' # steps /\ ret'.op = "remove" /\ ret'.id = id

\* C13: removeBot on an id that has a record, whatever its status and whether or not
\* its session handle is still registered, succeeds and removes the record; it
\* reports 'not found' only when the id has no record.
C13_RemoveDeletesRecord ==
  [][\A id \in Ids :
       RemoveStep(id) =>
         IF botData[id] # 0
         THEN ret'.result = "success" /\ botData'[id] = 0
         ELSE ret'.result = "failure"]_vars

\* C14: under fair timer firing, an agent whose record is 'kicked' is registered
\* again under the same id and name, by a new session in status 'connecting'.
C14_KickedReconnects ==
  \A o \in Objs :
    (obj[o].status = "kicked" /\ botData[obj[o].id] = o)
      ~> (\E o2 \in Objs :
            /\ o2 # o /\ obj[o].id \in Ids /\ bots[obj[o].id] = o2
            /\ obj[o2].name = obj[o].name
            /\ obj[o2].status = "connecting")

KnownCommands ==
  {"chat", "move", "follow", "stop", "jump", "look", "inventory", "attack"}

\* The step is an executeCommand call that passed the availability check and returned.
ExecReturned ==
  /\ steps' # steps /\ ret'.op = "exec"
  /\ ret'.id \in Ids /\ Accepted(ret'.id)
  /\ ret'.result \in {"success", "failure"}

\* C15: a command kind outside the eight known ones, on an available agent, fails
\* and changes nothing: lastCommand, the counters, the activity and the history
\* are as before.
C15_UnknownCommandNoEffect ==
  [][(ExecReturned /\ ret'.command \notin KnownCommands)
       => /\ ret'.result = "failure"
          /\ UNCHANGED <<obj, stats, commandHistory>>]_vars

\* C16: every call that passed the availability check with a known kind records
\* lastCommand, adds one to commandsExecuted and appends exactly one 'command'
\* history entry, whatever its outcome.
C16_AttemptRecorded ==
  [][(ExecReturned /\ ret'.command \in KnownCommands)
       => /\ obj'[botData[ret'.id]].lastCommand = ret'.command
          /\ stats'.commandsExecuted = stats.commandsExecuted + 1
          /\ Len(added') = Len(added) + 1
          /\ added'[Len(added')].type = "command"]_vars

\* C17: an attack or a follow whose target is not visible fails, adds one to
\* commandsExecuted, issues no attack and no goal to the session, schedules no
\* reset, and leaves the activity, the other counters and the history unchanged.
C17_TargetNotFound ==
  [][(ExecReturned /\ ret'.command \in {"follow", "attack"} /\ ret'.target = "absent")
       => LET data == botData[ret'.id]
          IN /\ ret'.result = "failure"
             /\ stats' = [stats EXCEPT !.commandsExecuted = @ + 1]
             /\ obj' = [obj EXCEPT ![data].lastCommand = ret'.command]
             /\ calls' = calls
             /\ commandHistory' = commandHistory]_vars

\* An attack on a target nobody sees was refused on an agent that had attacked
\* before: one more command executed, the same activity, the same history.
C17_Witness ==
  /\ ret.op = "exec" /\ ret.command = "attack" /\ ret.target = "absent"
  /\ ret.result = "failure"
  /\ stats.commandsExecuted = 2
  /\ Len(added) = 1
  /\ Includes(obj[botData[ret.id]].activity, "attacking ")
  /\ obj[bots[ret.id]].issued = {"attack"}

\* C18: a session call that throws inside executeCommand, for any command kind,
\* yields a failure result and adds exactly one to errors; no executeCommand call
\* raises to its caller.
C18_ThrowIsFailure ==
  [][/\ (steps' # steps /\ ret'.op \in {"exec", "moveDone"}
           /\ ret'.error = "SessionError")
          => ret'.result = "failure" /\ stats'.errors = stats.errors + 1
     /\ ret'.result # "raised"]_vars

\* An inventory call threw on an agent that had not spawned yet, after a jump had
\* thrown too: two failures, two errors counted.
C18_Witness ==
  /\ ret.op = "exec" /\ ret.command = "inventory"
  /\ ret.result = "failure" /\ ret.error = "SessionError"
  /\ stats.errors = 2 /\ stats.commandsExecuted = 2
  /\ obj[botData[ret.id]].status = "connecting"
  /\ obj[botData[ret.id]].lastCommand = "inventory"

\* C19: every step that counts a session-level error appends one 'error' entry to
\* the history and leaves the session handles and the records registered.
C19_ErrorLogged ==
  [][(steps' # steps /\ stats'.errors = stats.errors + 1)
       => /\ Len(added') = Len(added) + 1
          /\ added'[Len(added')].type = "error"
          /\ bots' = bots /\ botData' = botData]_vars

\* The step is the 'end' handler of session o.
EndStep(o) == obj[o].live = "alive" /\ obj'[o].live = "ended"

\* C20 as stated: once the 'end' event of a session is processed, the status of its
\* record is 'disconnected', whatever it was before.
C20_EndMeansDisconnected ==
  [][\A o \in Objs : EndStep(o) => obj'[o].status = "disconnected"]_vars

\* C20 as amended: once the 'end' event of a session is processed, the status of
\* its record is 'disconnected' if it was connecting, connected, error or dead, and
\* still 'kicked' if it was 'kicked'.
C20_EndKeepsKicked ==
  [][\A o \in Objs :
       EndStep(o) =>
         obj'[o].status = IF obj[o].status = "kicked" THEN "kicked" ELSE "disconnected"]_vars

\* One session ended after a kick and kept 'kicked'; another ended without one and
\* is 'disconnected'.
C20_Witness ==
  \E o1, o2 \in Objs :
    /\ obj[o1].live = "ended" /\ obj[o1].status = "kicked"
    /\ obj[o2].live = "ended" /\ obj[o2].status = "disconnected"

\* The step is a config update request whose body lacks host, port or version.
IncompleteUpdate ==
  /\ steps' # steps /\ ret'.op = "config"
  /\ \/ ret'.params.host = ""
     \/ ret'.params.port = << >>
     \/ ret'.params.version = ""

\* C21: a config update request without host, port or version is refused and
\* leaves the server config, every session, every record, the registries and the
\* pending re-creations as they were.
C21_IncompleteUpdateRefused ==
  [][IncompleteUpdate
       => /\ ret'.result = "failure"
          /\ UNCHANGED <<serverConfig, obj, bots, botData, timers, stats>>]_vars

\* An update without version was refused while a connected agent was registered:
\* the agent's session was not asked to disconnect and the config is the initial one.
C21_Witness ==
  /\ ret.op = "config" /\ ret.result = "failure"
  /\ ret.params.version = "" /\ ret.params.host # "" /\ ret.params.port # << >>
  /\ serverConfig = loadServerConfig
  /\ timers = << >>
  /\ \E id \in Ids :
       bots[id] # 0 /\ obj[bots[id]].status = "connected" /\ ~obj[bots[id]].quit

\* The step is the handler of the given event of session o.
EventStep(event, o) == steps' # steps /\ ret' = Emitted(event, o)

\* C22: the 'error' event of a session, whatever the status of its record, sets
\* that status to 'error' and adds one to errors; activeBots, both registries and
\* the session itself (not ended, not asked to disconnect) are as before.
C22_ErrorKeepsRegistration ==
  [][\A o \in Objs :
       EventStep("error", o)
         => /\ obj'[o].status = "error"
            /\ stats'.errors = stats.errors + 1
            /\ stats'.activeBots = stats.activeBots
            /\ bots' = bots /\ botData' = botData
            /\ obj'[o].live = obj[o].live /\ obj'[o].quit = obj[o].quit]_vars

\* A connected agent and a kicked one both had an 'error' event: both records are
\* 'error', both handles still registered, activeBots still counts the kick only.
C22_Witness ==
  \E o \in Objs :
    /\ ret = Emitted("error", o)
    /\ obj[o].status = "error" /\ obj[o].spawned /\ ~obj[o].kickedOnce
    /\ bots[obj[o].id] = o /\ botData[obj[o].id] = o
    /\ stats.errors = 2 /\ stats.activeBots = 0
    /\ \E k \in Objs :
         /\ obj[k].kickedOnce /\ obj[k].status = "error" /\ obj[k].live = "alive"
         /\ bots[obj[k].id] = k

\* C23: when a move completes, its goal reached or not, the activity of its agent's
\* record is 'idle': a finished move never leaves it at 'moving'.
C23_FinishedMoveIsIdle ==
  [][\A c \in DOMAIN calls :
       MoveDoneStep(c) => obj'[calls[c].data].activity = "idle"]_vars

\* The step is a move returning success.
MoveSucceeded == steps' # steps /\ ret'.op = "moveDone" /\ ret'.result = "success"

\* C24: movements grows by exactly one in a step where a move returns success and
\* is unchanged by every other step: a move returning failure, a command of any
\* other kind, a session event.
C24_MovementsCountsSuccesses ==
  [][stats'.movements = stats.movements + (IF MoveSucceeded THEN 1 ELSE 0)]_vars

\* A move returned success on a spawned agent and movements is 1.
C24_Witness ==
  /\ ret.op = "moveDone" /\ ret.result = "success"
  /\ stats.movements = 1
  /\ stats.commandsExecuted = 1
  /\ \E c \in DOMAIN calls : calls[c].st = "ok" /\ obj[calls[c].data].activity = "idle"

\* The step is the delayed reset r of the record o.
ResetStep(o, r) ==
  r \in obj[o].resets /\ obj'[o].resets = obj[o].resets \ {r} /\ ret' = NoReply

\* C25: the delayed reset of a jump, a look or an attack changes the activity (to
\* 'idle') only if the activity is still the one its command wrote; an activity
\* written meanwhile by another command or by a session event stays.
C25_ResetOnlyOwnActivity ==
  [][\A o \in Objs, r \in Resets :
       ResetStep(o, r)
         => /\ obj'[o].activity \in {obj[o].activity, "idle"}
            /\ obj'[o].activity # obj[o].activity => obj[o].activity = r.wrote]_vars

\* C26: the 'death' event of the session of a connected agent leaves the record
\* 'dead' and both registries as they were, creates no session and schedules none;
\* sessions are created only by the create route and by the re-creation timers of
\* a config update, and only a config update schedules such a timer.
C26_DeadStaysRegistered ==
  [][/\ \A o \in Objs :
          (EventStep("death", o) /\ obj[o].status = "connected")
            => /\ obj'[o].status = "dead"
               /\ bots' = bots /\ botData' = botData
               /\ nObj' = nObj /\ timers' = timers
     /\ nObj' # nObj => ret'.op \in {"create", "timer"}
     /\ Len(timers') > Len(timers) => ret'.op = "config"]_vars

\* A connected, registered agent died: its record is 'dead', its handle and its
\* record are registered, its session runs on and no re-creation is pending.
C26_Witness ==
  \E o \in Objs :
    /\ ret = Emitted("death", o)
    /\ obj[o].status = "dead" /\ obj[o].spawned /\ ~obj[o].kickedOnce
    /\ bots[obj[o].id] = o /\ botData[obj[o].id] = o
    /\ obj[o].live = "alive" /\ ~obj[o].quit
    /\ timers = << >>

\* C27: a look that succeeds turns the session to the caller's yaw when yaw is
\* given and to the caller's pitch when pitch is given, whatever the value given,
\* 0 included.
C27_LookUsesGivenAngles ==
  [][(ExecReturned /\ ret'.command = "look" /\ ret'.result = "success")
       => LET facing == obj'[bots[ret'.id]].facing
              params == ret'.params
          IN /\ "yaw" \in params.has => facing[1] = params.yaw
             /\ "pitch" \in params.has => facing[2] = params.pitch]_vars

\* C28: stats.activeBots is never negative, whatever the order of the session
\* events, of removals and of stop-all.
C28_ActiveNeverNegative == stats.activeBots >= 0

\* The session is counted in activeBots: its spawn added one and no kick of it
\* took one off.
Counted(o) == obj[o].spawned /\ ~obj[o].kickedOnce

\* C29: the 'end' event of a session that is not the one registered for its id
\* leaves the handle registered for that id in place, and leaves activeBots as it
\* was unless the ended session itself was counted in it.
C29_StaleEndKeepsNewer ==
  [][\A o \in Objs :
       (EventStep("end", o) /\ bots[obj[o].id] # o)
         => /\ bots'[obj[o].id] = bots[obj[o].id]
            /\ ~Counted(o) => stats'.activeBots = stats.activeBots]_vars

\* C30: every session a config migration created, while it lives, is the handle
\* registered for its id or has been asked to disconnect, and no id has two
\* sessions that live and were not asked to disconnect.
C30_NoLeakedSession ==
  /\ \A o \in Objs :
       (Alive(o) /\ obj[o].via = "timer") => (bots[obj[o].id] = o \/ obj[o].quit)
  /\ \A id \in Ids :
       (\E o \in Objs : obj[o].id = id /\ obj[o].via = "timer")
         => Cardinality(RunningSessions(id)) <= 1

\* The sessions the latest stop-all asked to disconnect, when no createBot call
\* was made since (stoppedAt is the number of sessions created when it ran).
StoppedLast == {o \in Objs : obj[o].stoppedAt = nObj /\ nObj > 0}

\* C31: when the 'end' events of all the sessions a stop-all disconnected have been
\* processed and no agent was created since that stop-all, the fleet is empty and
\* stats.activeBots is 0.
C31_StopAllSettles ==
  (StoppedLast # {} /\ \A o \in StoppedLast : obj[o].live = "ended")
    => /\ Registered(bots) = {} /\ Registered(botData) = {}
       /\ stats.activeBots = 0

\* C32: every id with a session handle in bots has a record in botData, and no
\* executeCommand call that passed the availability check found no record (none
\* raised to its caller).
C32_HandleHasRecord ==
  /\ \A id \in Ids : bots[id] # 0 => botData[id] # 0
  /\ ret.result # "raised"

\* One id has a record and no handle (its createBot call failed on the version)
\* while another has both, and a command on that one was carried out.
C32_Witness ==
  /\ \E id \in Ids :
       botData[id] # 0 /\ bots[id] = 0 /\ obj[botData[id]].status = "error"
  /\ \E id \in Ids :
       /\ bots[id] # 0 /\ botData[id] # 0
       /\ obj[botData[id]].lastCommand = "inventory"
  /\ stats.commandsExecuted = 1

\* C33: a command, lookup or remove request made over HTTP with the id the create
\* route returned, while the session handle of that id is registered, is not
\* answered 'Bot non disponible' or 'Bot non trouve'.
C33_HttpIdReachesAgent ==
  [][\A id \in Ids :
       (/\ steps' # steps /\ ret'.op \in {"exec", "lookup", "remove"}
        /\ ret'.id = id /\ bots[id] # 0)
         => ret'.error \notin {"Bot non disponible", "Bot non trouve"}]_vars

\* C34: a run of the snapshot refresh of a session that has ended, or that is not
\* the session registered for its id (its agent removed, or the id registered
\* again with another session), is the last one: the interval is cleared.
C34_RefreshStops ==
  [][\A o \in Objs :
       (ret' = Emitted("tick", o)
          /\ (obj[o].live = "ended" \/ bots[obj[o].id] # o))
         => ~obj'[o].interval]_vars

\* The step sends a chat line: a chat command that succeeded, the welcome message
\* of a spawn, the reply to a mention.
SendsLine ==
  \/ ret'.op = "exec" /\ ret'.command = "chat" /\ ret'.result = "success"
  \/ ret'.op = "event" /\ ret'.command \in {"welcome", "reply"}

\* C35: messagesSent changes only in a step where an agent sends a chat line, and
\* then by one; a chat event received from another player leaves it as it was.
C35_CountsSentLinesOnly ==
  [][/\ stats'.messagesSent # stats.messagesSent
          => SendsLine /\ stats'.messagesSent = stats.messagesSent + 1
     /\ (ret'.op = "event" /\ ret'.command = "chat" /\ steps' # steps)
          => stats'.messagesSent = stats.messagesSent]_vars

\* C36: in SimpleBotManager no handler of a session event throws on a missing
\* registry entry, whatever the order of the spawn, error and end events and of
\* the removeBot calls.
C36_SimpleHandlersNeverThrow == ~(ret.op = "event" /\ ret.result = "raised")
====
